---- MODULE Spec2Model ----
(***************************************************************************)
(* Chunk stores of katdal: the key/metadata engine of the ChunkStore base  *)
(* class, the NPY file backend (katdal/chunkstore_npy.py) and the RADOS    *)
(* object backend (katdal/chunkstore_rados.py), as a state machine over    *)
(* the file system, the object pool and the outcome of the last call.      *)
(***************************************************************************)
EXTENDS Integers, Sequences, FiniteSets, TLC

VARIABLES
    store,      \* the store instance under construction / in use
    dirs,       \* directories that exist on the file system
    files,      \* file name -> array saved in it (NPY files describe themselves)
    objects,    \* RADOS object key -> raw bytes
    res,        \* the last call: its arguments, what the backend did, its outcome
    last,       \* the call before it (key/metadata engine runs only)
    hist,       \* the successful puts so far (history, sequential runs only)
    threads,    \* the calls in progress in each thread (concurrent runs only)
    lazy,       \* the lazy arrays built and the gets they issued
    sensor,     \* a sensor data set and what remove_duplicates made of it
    h5,         \* an HDF5 data file object and its scans() generator
    source      \* the last call of open_data_source and how it ended

vars ==
    <<store, dirs, files, objects, res, last, hist, threads, lazy, sensor, h5,
      source>>

\* the state of the other parts of the package, which a chunk store leaves alone
aside == <<threads, lazy, sensor, h5, source>>

----------------------------------------------------------------------------
(* Bounds of the model *)

MaxStart == 1       \* start offsets are 0..MaxStart
MaxExtent == 2      \* chunk extents (stop - start) are 1..MaxExtent

(* Program constant: width of a zero-padded start offset ("00001_00512") *)
PadWidth == 5

----------------------------------------------------------------------------
(* Python values *)

\* None in a slice field (model offsets are naturals)
None == 0 - 1

\* numpy dtypes: one-byte and two-byte unsigned integers, and object
U1 == [name |-> "uint8", itemsize |-> 1, hasobject |-> FALSE]
U2 == [name |-> "uint16", itemsize |-> 2, hasobject |-> FALSE]
Obj == [name |-> "object", itemsize |-> 8, hasobject |-> TRUE]
NoDtype == [name |-> "None", itemsize |-> 0, hasobject |-> FALSE]
FixedDtypes == {U1, U2}
Dtypes == FixedDtypes \cup {Obj}

RECURSIVE Prod(_)
Prod(shape) == IF shape = <<>> THEN 1 ELSE Head(shape) * Prod(Tail(shape))

RECURSIVE Pow(_, _)
Pow(b, n) == IF n = 0 THEN 1 ELSE b * Pow(b, n - 1)

\* an element as the dtype holds it: fixed width, or a reference to an object
Wrap(v, dtype) == IF dtype.hasobject THEN v ELSE v % Pow(256, dtype.itemsize)

\* an array: shape, dtype and the elements in C order
NoChunk == [shape |-> <<>>, dtype |-> NoDtype, data |-> <<>>]
Arange(shape, dtype, v0) ==
    [shape |-> shape, dtype |-> dtype,
     data |-> [i \in 1..Prod(shape) |-> Wrap(v0 + i - 1, dtype)]]

----------------------------------------------------------------------------
(* Slice specifications.  The `slices` argument is either an iterable      *)
(* (tuple / list) of items or a bare object; an item is a slice object     *)
(* (start, stop, step, each possibly None) or an integer index.            *)

Slice(start, stop, step) ==
    [tag |-> "slice", start |-> start, stop |-> stop, step |-> step]
Index(n) == [tag |-> "int", start |-> n, stop |-> None, step |-> None]
Tuple(items) == [iterable |-> TRUE, items |-> items]
Bare(item) == [iterable |-> FALSE, items |-> <<item>>]

----------------------------------------------------------------------------
(* Key / metadata engine (ChunkStore.chunk_name, ChunkStore.chunk_metadata) *)

\* (variant) a slice object whose start was left out passes: slice(10) read as 0:10
WellFormedNoStart(slices) ==
    /\ slices.iterable
    /\ Len(slices.items) > 0
    /\ \A i \in 1..Len(slices.items) :
           slices.items[i].tag = "slice" /\ slices.items[i].stop # None

\* every item is a slice object with integer start and stop
IsRange(item) == item.tag = "slice" /\ item.start # None /\ item.stop # None
WellFormed(slices) ==
    /\ slices.iterable
    /\ Len(slices.items) > 0
    /\ \A i \in 1..Len(slices.items) : IsRange(slices.items[i])

\* unit stride: step 1, or the step left out (slice(3, 5))
UnitStride(slices) ==
    \A i \in 1..Len(slices.items) : slices.items[i].step \in {None, 1}

SliceStarts(slices) == [i \in 1..Len(slices.items) |-> slices.items[i].start]
SliceShape(slices) ==
    [i \in 1..Len(slices.items) |-> slices.items[i].stop - slices.items[i].start]

RECURSIVE NumDigits(_)
NumDigits(n) == IF n < 10 THEN 1 ELSE 1 + NumDigits(n \div 10)

RECURSIVE Zeros(_)
Zeros(k) == IF k <= 0 THEN "" ELSE "0" \o Zeros(k - 1)

\* "%05d" % n : pads to PadWidth digits, never truncates
ZeroPad(n) == Zeros(PadWidth - NumDigits(n)) \o ToString(n)

RECURSIVE JoinIdx(_)
JoinIdx(starts) ==
    IF Len(starts) = 1 THEN ZeroPad(starts[1])
    ELSE ZeroPad(starts[1]) \o "_" \o JoinIdx(Tail(starts))

\* ChunkStore.join
join(a, b) == a \o "/" \o b

ChunkKey(array_name, slices) == join(array_name, JoinIdx(SliceStarts(slices)))

Malformed == [err |-> "MalformedRequest", key |-> "", shape |-> <<>>]

\* (variant) only the dtype of a supplied chunk is looked at, never `dtype`
chunk_metadata_chunk_dtype_only(array_name, slices, chunk, dtype) ==
    IF ~WellFormed(slices) THEN Malformed
    ELSE IF ~UnitStride(slices) THEN Malformed
    ELSE IF chunk # NoChunk /\ chunk.shape # SliceShape(slices) THEN Malformed
    ELSE IF chunk # NoChunk /\ chunk.dtype.hasobject THEN Malformed
    ELSE [err |-> "none", key |-> ChunkKey(array_name, slices),
          shape |-> SliceShape(slices)]

\* chunk_metadata(array_name, slices, chunk=None, dtype=None) -> key, shape
chunk_metadata(array_name, slices, chunk, dtype) ==
    IF ~WellFormed(slices) THEN Malformed
    ELSE IF ~UnitStride(slices) THEN Malformed
    ELSE IF chunk # NoChunk /\ chunk.shape # SliceShape(slices) THEN Malformed
    ELSE IF chunk # NoChunk /\ chunk.dtype.hasobject THEN Malformed
    ELSE IF chunk # NoChunk /\ dtype # NoDtype /\ chunk.dtype # dtype THEN Malformed
    ELSE IF dtype # NoDtype /\ dtype.hasobject THEN Malformed
    ELSE [err |-> "none", key |-> ChunkKey(array_name, slices),
          shape |-> SliceShape(slices)]

\* chunk_name(array_name, slices[, chunk=chunk])
chunk_name(array_name, slices, chunk) ==
    chunk_metadata(array_name, slices, chunk, NoDtype)

----------------------------------------------------------------------------
(* Raw bytes of an array (little endian), as RADOS objects hold them *)

RECURSIVE ElemBytes(_, _)
ElemBytes(v, n) ==
    IF n = 0 THEN <<>> ELSE <<v % 256>> \o ElemBytes(v \div 256, n - 1)

RECURSIVE BytesOf(_, _)
BytesOf(data, itemsize) ==
    IF data = <<>> THEN <<>>
    ELSE ElemBytes(Head(data), itemsize) \o BytesOf(Tail(data), itemsize)

\* chunk.tobytes()
tobytes(chunk) == BytesOf(chunk.data, chunk.dtype.itemsize)

RECURSIVE ElemValue(_)
ElemValue(bytes) ==
    IF bytes = <<>> THEN 0 ELSE Head(bytes) + 256 * ElemValue(Tail(bytes))

\* np.ndarray(shape, dtype, buffer): the buffer must hold the whole array
BufferTooSmall(shape, dtype, buffer) ==
    Len(buffer) < Prod(shape) * dtype.itemsize
ndarray(shape, dtype, buffer) ==
    [shape |-> shape, dtype |-> dtype,
     data |-> [i \in 1..Prod(shape) |->
                 ElemValue(SubSeq(buffer, (i - 1) * dtype.itemsize + 1,
                                  i * dtype.itemsize))]]

\* (variant) the last byte asked for is not read
readShort(object, length) ==
    SubSeq(object, 1, IF Len(object) < length THEN Len(object) ELSE length - 1)

\* ioctx.read(key, length): at most `length` bytes of the object
read(object, length) ==
    SubSeq(object, 1, IF Len(object) < length THEN Len(object) ELSE length)

----------------------------------------------------------------------------
(* Error taxonomy (ChunkStore._standard_errors) *)

EmptyMap == [n \in {} |-> "none"]

\* outcome of a block run under `with self._standard_errors():`
standard_errors(error_map, native) ==
    IF native = "none" THEN "ok"
    ELSE IF native \in DOMAIN error_map THEN error_map[native]
    ELSE native

----------------------------------------------------------------------------
(* Inputs *)

ArrayNames == {"x", "y"}
Starts == 0..MaxStart
Extents == 1..MaxExtent
Steps == {None, 1, 2}
Seed == 255
RootPaths == {"/data", "/nowhere"}

\* store.chunk_metadata("x", 3), ("x", [3, 2]), ("x", slice(10)), ("x", [slice(10)])
BadSpecs ==
    { Bare(Index(3)),
      Tuple(<<Index(3), Index(2)>>),
      Bare(Slice(None, 10, None)),
      Tuple(<<Slice(None, 10, None)>>) }

\* s = (slice(3, 7), slice(2, 5), slice(1, 2))
TestSpec3D == Tuple(<<Slice(3, 7, None), Slice(2, 5, None), Slice(1, 2, None)>>)

\* one-dimensional slice tuples, unit stride or not
RangeSpecs ==
    {Tuple(<<Slice(a, a + e, st)>>) : a \in Starts, e \in Extents, st \in Steps}

\* two-dimensional slice tuples
GridSpecs ==
    {Tuple(<<Slice(a, a + 1, None), Slice(b, b + 1, None)>>) : a, b \in Starts}

\* slice specifications given to the key / metadata engine
SliceSpecs ==
    BadSpecs \cup {Tuple(<<>>)} \cup RangeSpecs \cup GridSpecs \cup {TestSpec3D}

\* slice specifications given to a store: the first and the last start offset,
\* the smallest and the largest extent, the step left out or 2
StoreSpecs ==
    BadSpecs \cup
    {Tuple(<<Slice(a, a + e, st)>>) :
        a \in {0, MaxStart}, e \in {1, MaxExtent}, st \in {None, 2}}
StoreNames == {"x"}

\* the shape the caller means the chunk to have
IntendedShape(slices) == IF WellFormed(slices) THEN SliceShape(slices) ELSE <<1>>

\* chunks offered with a slice specification: of its shape in every dtype,
\* and one element longer (np.ones(11) for 0:10)
ChunksFor(slices) ==
    LET shape == IntendedShape(slices)
        longer == [shape EXCEPT ![1] = @ + 1]
    IN  {Arange(shape, dt, Seed) : dt \in Dtypes} \cup {Arange(longer, U2, Seed)}

----------------------------------------------------------------------------
(* State *)

NoStore == [kind |-> "none", state |-> "none", path |-> "", error_map |-> EmptyMap]

NoRes ==
    [op |-> "none", array_name |-> "", slices |-> Tuple(<<>>), dtype |-> NoDtype,
     chunk |-> NoChunk, fault |-> "none", native |-> "none", outcome |-> "none",
     key |-> "",
     shape |-> <<>>, value |-> NoChunk, io |-> {}, changed |-> FALSE,
     rt |-> NoChunk]

NoLast == [array_name |-> "", starts |-> <<>>, key |-> ""]

NoFiles == [f \in {} |-> NoChunk]
NoObjects == [k \in {} |-> <<>>]

NoSource ==
    [op |-> "none", url |-> [scheme |-> "", isfile |-> FALSE, db |-> "0"],
     load |-> "none",
     connect |-> "none", construct |-> "none", inner |-> "none",
     outcome |-> "none", value |-> "none"]

\* history of the successful puts: per chunk key the slices and the chunk of
\* the latest one, per (array name, slices) the chunk of the latest one
NoPut == [slices |-> Tuple(<<>>), chunk |-> NoChunk]
NoHist == [on |-> FALSE, bykey |-> [k \in {} |-> NoPut],
           bypair |-> [p \in {} |-> NoChunk]]
EmptyHist == [NoHist EXCEPT !.on = TRUE]

NoThreads == <<>>
NoLazy == [built |-> {}, vfw |-> FALSE, pulls |-> <<>>, gets |-> <<>>]
NoSensor ==
    [data |-> <<>>, done |-> FALSE, outcome |-> "none", warned |-> FALSE,
     out |-> <<>>]
NoGen == [pc |-> "none", scan_index |-> 0, compscan_index |-> 0, scan |-> 0]
NoH5 ==
    [version |-> 0, error |-> "none", len |-> 0, scan_starts |-> <<>>,
     scan_ends |-> <<>>, compscans |-> <<>>, first_sample |-> 0,
     last_sample |-> 0, scan_group |-> <<0, 0>>, initial |-> <<>>, gen |-> NoGen]

Init ==
    /\ store = NoStore
    /\ dirs = {"/data"}
    /\ files = NoFiles
    /\ objects = NoObjects
    /\ res = NoRes
    /\ last = NoLast
    /\ hist = NoHist
    /\ threads = NoThreads
    /\ lazy = NoLazy
    /\ sensor = NoSensor
    /\ h5 = NoH5
    /\ source = NoSource

\* (variant) a key that is there keeps what it holds
StoreOnce(f, k, v) ==
    [x \in DOMAIN f \cup {k} |-> IF x \in DOMAIN f THEN f[x] ELSE v]

\* f with key k set to v, k new or not
Store(f, k, v) == [x \in DOMAIN f \cup {k} |-> IF x = k THEN v ELSE f[x]]

\* the history once a put of `chunk` under `key` has succeeded
Record(h, key, array_name, slices, chunk) ==
    IF ~h.on THEN h
    ELSE [on |-> TRUE,
          bykey |-> [k \in DOMAIN h.bykey \cup {key} |->
                        IF k = key THEN [slices |-> slices, chunk |-> chunk]
                        ELSE h.bykey[k]],
          bypair |-> [p \in DOMAIN h.bypair \cup {<<array_name, slices>>} |->
                         IF p = <<array_name, slices>> THEN chunk
                         ELSE h.bypair[p]]]

\* the chunk a get is due when it directly follows a successful put of the
\* same array name and slices (history, read from the previous call)
JustPut(array_name, slices) ==
    IF /\ res.op = "put"
       /\ res.outcome = "ok"
       /\ res.array_name = array_name
       /\ res.slices = slices
    THEN res.chunk ELSE NoChunk

Request(op, array_name, slices, dtype, chunk) ==
    [NoRes EXCEPT !.op = op, !.array_name = array_name, !.slices = slices,
                  !.dtype = dtype, !.chunk = chunk]

----------------------------------------------------------------------------
(* NpyFileChunkStore *)

\* (variant) the chunk name is left out of the path
NpyFilenameNoKey(path, key) == path \o ".npy"

\* os.path.join(self.path, chunk_name) + '.npy'
NpyFilename(path, key) == path \o "/" \o key \o ".npy"

\* dirname, _ = os.path.split(filename)
NpyDirname(path, array_name) == path \o "/" \o array_name

\* (variant) the name is built without the check of the steps
NpyChunkNameNoStride(array_name, slices) ==
    IF ~WellFormed(slices) THEN Malformed
    ELSE [err |-> "none", key |-> ChunkKey(array_name, slices),
          shape |-> SliceShape(slices)]

\* chunk_name = ChunkStore.chunk_name(array_name, slices)
NpyChunkName(array_name, slices) == chunk_name(array_name, slices, NoChunk)

NpyInit(path) ==
    /\ store.state # "open"
    /\ store' = [kind |-> "npy", path |-> path, error_map |-> EmptyMap,
                 state |-> IF path \in dirs THEN "open" ELSE "failed"]
    /\ res' = [NoRes EXCEPT !.op = "init", !.io = {"isdir"},
                            !.outcome = IF path \in dirs THEN "ok" ELSE "IOError"]
    /\ UNCHANGED <<dirs, files, objects, last, hist, aside>>

NpyGet(array_name, slices, dtype) ==
    /\ store.kind = "npy" /\ store.state = "open"
    /\ LET md == NpyChunkName(array_name, slices)
           filename == NpyFilename(store.path, md.key)
           req == [Request("get", array_name, slices, dtype, NoChunk)
                       EXCEPT !.rt = JustPut(array_name, slices)]
       IN  res' = IF md.err # "none" THEN [req EXCEPT !.outcome = md.err]
                  ELSE IF filename \notin DOMAIN files
                  THEN [req EXCEPT !.key = md.key, !.shape = md.shape,
                                   !.io = {"load"}, !.native = "IOError",
                                   !.outcome = "IOError"]
                  ELSE [req EXCEPT !.key = md.key, !.shape = md.shape,
                                   !.io = {"load"}, !.outcome = "ok",
                                   !.value = files[filename]]
    /\ UNCHANGED <<store, dirs, files, objects, last, hist, aside>>

NpyPut(array_name, slices, chunk) ==
    /\ store.kind = "npy" /\ store.state = "open"
    /\ LET md == NpyChunkName(array_name, slices)
           filename == NpyFilename(store.path, md.key)
           dirname == NpyDirname(store.path, array_name)
           req == Request("put", array_name, slices, chunk.dtype, chunk)
       IN  IF md.err # "none"
           THEN /\ res' = [req EXCEPT !.outcome = md.err]
                /\ UNCHANGED <<dirs, files, hist>>
           ELSE /\ dirs' = dirs \cup {dirname}
                /\ files' = Store(files, filename, chunk)
                /\ hist' = Record(hist, md.key, array_name, slices, chunk)
                /\ res' = [req EXCEPT
                      !.key = md.key, !.shape = md.shape, !.outcome = "ok",
                      !.io = {"isdir", "save"} \cup
                             (IF dirname \in dirs THEN {} ELSE {"makedirs"}),
                      !.changed = (dirs' # dirs \/ files' # files)]
    /\ UNCHANGED <<store, objects, last, aside>>

----------------------------------------------------------------------------
(* RadosChunkStore *)

ConnectFaults == {"none", "TimedOut", "ObjectNotFound", "Error"}
ReadFaults == {"none", "TimedOut", "Error"}
WriteFaults == {"none", "TimedOut", "ObjectNotFound", "Error"}

\* error_map = {rados.TimedOut: StoreUnavailable, rados.ObjectNotFound: StoreUnavailable}
InitialErrorMap ==
    [n \in {"TimedOut", "ObjectNotFound"} |-> "StoreUnavailable"]

\* self._error_map[rados.ObjectNotFound] = ChunkNotFound
RemapErrors(error_map) == [error_map EXCEPT !["ObjectNotFound"] = "ChunkNotFound"]

\* (variant) ObjectNotFound is remapped before the cluster is connected
ConnectErrorMapRemapped == RemapErrors(InitialErrorMap)

\* the error map in force in `with self._standard_errors(): cluster.connect() ...`
ConnectErrorMap == InitialErrorMap

\* key, shape = self.chunk_metadata(array_name, slices, dtype=dtype)
RadosGetMetadata(array_name, slices, dtype) ==
    chunk_metadata(array_name, slices, NoChunk, dtype)

\* key, shape = self.chunk_name(array_name, slices, chunk=chunk)
RadosPutMetadata(array_name, slices, chunk) ==
    chunk_name(array_name, slices, chunk)

\* (variant) the number of elements taken for the number of bytes
NumBytesNoItemsize(shape, dtype) == Prod(shape)

\* num_bytes = np.prod(shape) * dtype.itemsize
NumBytes(shape, dtype) == Prod(shape) * dtype.itemsize

\* (variant) the backend call is made outside the error translator
RadosCallUnwrapped(error_map, native) == IF native = "none" THEN "ok" ELSE native

\* with self._standard_errors(key): self.ioctx.read / write_full
RadosCall(error_map, native) == standard_errors(error_map, native)

RadosInit(installed, fault) ==
    /\ store.state # "open"
    /\ LET outcome == standard_errors(ConnectErrorMap, fault)
       IN  IF ~installed
           THEN /\ store' = [kind |-> "rados", path |-> "", state |-> "failed",
                             error_map |-> EmptyMap]
                /\ res' = [NoRes EXCEPT !.op = "init", !.outcome = "ImportError"]
           ELSE /\ store' = [kind |-> "rados", path |-> "",
                             state |-> IF outcome = "ok" THEN "open" ELSE "failed",
                             error_map |-> IF outcome = "ok"
                                           THEN RemapErrors(InitialErrorMap)
                                           ELSE InitialErrorMap]
                /\ res' = [NoRes EXCEPT !.op = "init", !.io = {"connect"},
                                        !.fault = fault, !.native = fault,
                                        !.outcome = outcome]
    /\ UNCHANGED <<dirs, files, objects, last, hist, aside>>

RadosGet(array_name, slices, dtype, fault) ==
    /\ store.kind = "rados" /\ store.state = "open"
    /\ LET md == RadosGetMetadata(array_name, slices, dtype)
           num_bytes == NumBytes(md.shape, dtype)
           native == IF fault # "none" THEN fault
                     ELSE IF md.key \notin DOMAIN objects THEN "ObjectNotFound"
                     ELSE "none"
           outcome == RadosCall(store.error_map, native)
           data_str == read(objects[md.key], num_bytes)
           req == [Request("get", array_name, slices, dtype, NoChunk)
                       EXCEPT !.rt = JustPut(array_name, slices)]
           called == [req EXCEPT !.key = md.key, !.shape = md.shape,
                                 !.io = {"read"}, !.fault = fault,
                                 !.native = native]
       IN  res' = IF md.err # "none" THEN [req EXCEPT !.outcome = md.err]
                  ELSE IF outcome # "ok" THEN [called EXCEPT !.outcome = outcome]
                  ELSE IF BufferTooSmall(md.shape, dtype, data_str)
                  THEN [called EXCEPT !.outcome = "TypeError"]
                  ELSE [called EXCEPT !.outcome = "ok",
                                      !.value = ndarray(md.shape, dtype, data_str)]
    /\ UNCHANGED <<store, dirs, files, objects, last, hist, aside>>

RadosPut(array_name, slices, chunk, fault) ==
    /\ store.kind = "rados" /\ store.state = "open"
    /\ LET md == RadosPutMetadata(array_name, slices, chunk)
           data_str == tobytes(chunk)
           outcome == RadosCall(store.error_map, fault)
           req == Request("put", array_name, slices, chunk.dtype, chunk)
           called == [req EXCEPT !.key = md.key, !.shape = md.shape,
                                 !.io = {"write_full"}, !.fault = fault,
                                 !.native = fault, !.outcome = outcome]
       IN  IF md.err # "none"
           THEN /\ res' = [req EXCEPT !.outcome = md.err]
                /\ UNCHANGED <<objects, hist>>
           ELSE IF outcome # "ok"
           THEN /\ res' = called
                /\ UNCHANGED <<objects, hist>>
           ELSE /\ objects' = Store(objects, md.key, data_str)
                /\ hist' = Record(hist, md.key, array_name, slices, chunk)
                /\ res' = [called EXCEPT !.changed = (objects' # objects)]
    /\ UNCHANGED <<store, dirs, files, last, aside>>

----------------------------------------------------------------------------
(* The stores in use: one instance is constructed, then serves get and put *)

Next ==
    \/ \E path \in RootPaths : NpyInit(path)
    \/ \E a \in StoreNames, s \in StoreSpecs, dt \in Dtypes : NpyGet(a, s, dt)
    \/ \E a \in StoreNames, s \in StoreSpecs :
           \E c \in ChunksFor(s) : NpyPut(a, s, c)
    \/ \E installed \in BOOLEAN, fault \in ConnectFaults :
           RadosInit(installed, fault)
    \/ \E a \in StoreNames, s \in StoreSpecs, dt \in Dtypes, fault \in ReadFaults :
           RadosGet(a, s, dt, fault)
    \/ \E a \in StoreNames, s \in StoreSpecs, fault \in WriteFaults :
           \E c \in ChunksFor(s) : RadosPut(a, s, c, fault)

Spec == Init /\ [][Next]_vars

----------------------------------------------------------------------------
(* One store in sequential use, no backend failure, the puts recorded *)

\* unit-stride slices: the smallest and the largest extent at the first start
\* offset (one chunk key), the smallest extent at the last one (another key)
SeqSpecs ==
    {Tuple(<<Slice(0, e, None)>>) : e \in {1, MaxExtent}}
        \cup {Tuple(<<Slice(MaxStart, MaxStart + 1, None)>>)}

\* chunks of the shape of the slices: two payloads of one dtype, one of another
SeqChunks(slices) ==
    LET shape == SliceShape(slices)
    IN  {Arange(shape, U1, Seed), Arange(shape, U1, Seed + 1), Arange(shape, U2, Seed)}

SeqInit ==
    /\ store = NoStore
    /\ dirs = {"/data"}
    /\ files = NoFiles
    /\ objects = NoObjects
    /\ res = NoRes
    /\ last = NoLast
    /\ hist = EmptyHist
    /\ threads = NoThreads
    /\ lazy = NoLazy
    /\ sensor = NoSensor
    /\ h5 = NoH5
    /\ source = NoSource

SeqNext ==
    \/ NpyInit("/data")
    \/ RadosInit(TRUE, "none")
    \/ \E a \in StoreNames, s \in SeqSpecs, dt \in FixedDtypes : NpyGet(a, s, dt)
    \/ \E a \in StoreNames, s \in SeqSpecs : \E c \in SeqChunks(s) : NpyPut(a, s, c)
    \/ \E a \in StoreNames, s \in SeqSpecs, dt \in FixedDtypes :
           RadosGet(a, s, dt, "none")
    \/ \E a \in StoreNames, s \in SeqSpecs : \E c \in SeqChunks(s) :
           RadosPut(a, s, c, "none")

SpecSeq == SeqInit /\ [][SeqNext]_vars

----------------------------------------------------------------------------
(* One store shared by threads.  A call is a series of steps, one per access *)
(* to the file system or to the pool; the steps of the threads interleave.   *)

Threads == {1, 2}

\* one chunk at the first start offset, one at the last, of one array
ConcSpecs == {Tuple(<<Slice(a, a + 1, None)>>) : a \in {0, MaxStart}}
\* an old and a new payload
ConcChunks == {Arange(<<1>>, U1, Seed), Arange(<<1>>, U1, Seed + 1)}

\* a file that np.save has opened for writing and not finished: np.load fails on
\* it, on the magic string or on the count of the elements
Torn == [shape |-> <<0>>, dtype |-> NoDtype, data |-> <<>>]
TornReads == {"IOError", "ValueError"}

\* pc: the step the call is at; clean, over, present: history of a get (no put
\* has written since it began, the other thread was in a get when it read, its
\* key was there when it read)
IdleThread ==
    [pc |-> "idle", op |-> "none", array_name |-> "", slices |-> Tuple(<<>>),
     dtype |-> NoDtype, chunk |-> NoChunk, key |-> "", shape |-> <<>>,
     outcome |-> "none", value |-> NoChunk,
     clean |-> TRUE, over |-> FALSE, present |-> FALSE]

ConcInit ==
    /\ store = NoStore
    /\ dirs = {"/data"}
    /\ files = NoFiles
    /\ objects = NoObjects
    /\ res = NoRes
    /\ last = NoLast
    /\ hist = NoHist
    /\ threads = [t \in Threads |-> IdleThread]
    /\ lazy = NoLazy
    /\ sensor = NoSensor
    /\ h5 = NoH5
    /\ source = NoSource

Free(t) == threads[t].pc \in {"idle", "done"}

Call(op, array_name, slices, dtype, chunk, md, pc) ==
    IF md.err # "none"
    THEN [IdleThread EXCEPT !.pc = "done", !.op = op, !.array_name = array_name,
             !.slices = slices, !.dtype = dtype, !.chunk = chunk,
             !.outcome = md.err]
    ELSE [IdleThread EXCEPT !.pc = pc, !.op = op, !.array_name = array_name,
             !.slices = slices, !.dtype = dtype, !.chunk = chunk,
             !.key = md.key, !.shape = md.shape]

\* thread t returns or raises
Return(t, outcome, value) ==
    [threads EXCEPT ![t].pc = "done", ![t].outcome = outcome, ![t].value = value]

\* a get of the other thread is under way
OtherInGet(t) == \E u \in Threads \ {t} : threads[u].pc \in {"load", "read"}

\* thread t has written: the gets of the others are no longer free of puts
Written(ths, t) ==
    [u \in Threads |-> IF u # t /\ ths[u].op = "get"
                       THEN [ths[u] EXCEPT !.clean = FALSE] ELSE ths[u]]

\* NpyFileChunkStore.get up to np.load
NpyGetCall(t, array_name, slices, dtype) ==
    /\ store.kind = "npy" /\ store.state = "open" /\ Free(t)
    /\ threads' = [threads EXCEPT ![t] =
           Call("get", array_name, slices, dtype, NoChunk,
                NpyChunkName(array_name, slices), "load")]
    /\ UNCHANGED <<store, dirs, files, objects, res, last, hist, lazy,
                 sensor, h5, source>>

\* return np.load(filename)
NpyGetLoad(t) ==
    /\ threads[t].pc = "load"
    /\ LET filename == NpyFilename(store.path, threads[t].key)
           ths == [threads EXCEPT ![t].over = OtherInGet(t),
                                  ![t].present = (filename \in DOMAIN files)]
       IN  IF filename \notin DOMAIN files
           THEN threads' = [ths EXCEPT ![t].pc = "done", ![t].outcome = "IOError"]
           ELSE IF files[filename] = Torn
           THEN \E e \in TornReads :
                    threads' = [ths EXCEPT ![t].pc = "done", ![t].outcome = e]
           ELSE threads' = [ths EXCEPT ![t].pc = "done", ![t].outcome = "ok",
                                       ![t].value = files[filename]]
    /\ UNCHANGED <<store, dirs, files, objects, res, last, hist, lazy,
                 sensor, h5, source>>

\* NpyFileChunkStore.put up to `if not os.path.isdir(dirname)`
NpyPutCall(t, array_name, slices, chunk) ==
    /\ store.kind = "npy" /\ store.state = "open" /\ Free(t)
    /\ threads' = [threads EXCEPT ![t] =
           Call("put", array_name, slices, chunk.dtype, chunk,
                NpyChunkName(array_name, slices),
                IF NpyDirname(store.path, array_name) \in dirs
                THEN "save" ELSE "makedirs")]
    /\ UNCHANGED <<store, dirs, files, objects, res, last, hist, lazy,
                 sensor, h5, source>>

\* os.makedirs(dirname): fails when the directory is there by now
NpyPutMakedirs(t) ==
    /\ threads[t].pc = "makedirs"
    /\ LET dirname == NpyDirname(store.path, threads[t].array_name)
       IN  IF dirname \in dirs
           THEN /\ threads' = Return(t, "OSError", NoChunk)
                /\ UNCHANGED dirs
           ELSE /\ threads' = [threads EXCEPT ![t].pc = "save"]
                /\ dirs' = dirs \cup {dirname}
    /\ UNCHANGED <<store, files, objects, res, last, hist, lazy, sensor, h5,
                 source>>

\* np.save(filename, chunk): the file is opened for writing, which empties it
NpyPutOpen(t) ==
    /\ threads[t].pc = "save"
    /\ files' = Store(files, NpyFilename(store.path, threads[t].key), Torn)
    /\ threads' = Written([threads EXCEPT ![t].pc = "write"], t)
    /\ UNCHANGED <<store, dirs, objects, res, last, hist, lazy, sensor, h5,
                 source>>

\* np.save(filename, chunk): the header and the elements are written; what the
\* file holds is not defined when another thread is writing it too
NpyPutWrite(t) ==
    /\ threads[t].pc = "write"
    /\ LET filename == NpyFilename(store.path, threads[t].key)
           raced == \E u \in Threads \ {t} :
                        threads[u].pc = "write" /\ threads[u].key = threads[t].key
       IN  \E content \in {threads[t].chunk} \cup (IF raced THEN {Torn} ELSE {}) :
               files' = Store(files, filename, content)
    /\ threads' = Written(Return(t, "ok", NoChunk), t)
    /\ UNCHANGED <<store, dirs, objects, res, last, hist, lazy, sensor, h5,
                 source>>

\* RadosChunkStore.get up to self.ioctx.read
RadosGetCall(t, array_name, slices, dtype) ==
    /\ store.kind = "rados" /\ store.state = "open" /\ Free(t)
    /\ threads' = [threads EXCEPT ![t] =
           Call("get", array_name, slices, dtype, NoChunk,
                RadosGetMetadata(array_name, slices, dtype), "read")]
    /\ UNCHANGED <<store, dirs, files, objects, res, last, hist, lazy,
                 sensor, h5, source>>

\* data_str = self.ioctx.read(key, num_bytes); return np.ndarray(shape, dtype, data_str)
RadosGetRead(t) ==
    /\ threads[t].pc = "read"
    /\ LET th == threads[t]
           native == IF th.key \in DOMAIN objects THEN "none" ELSE "ObjectNotFound"
           outcome == RadosCall(store.error_map, native)
           data_str == read(objects[th.key], NumBytes(th.shape, th.dtype))
           ths == [threads EXCEPT ![t].over = OtherInGet(t),
                                  ![t].present = (th.key \in DOMAIN objects)]
       IN  threads' =
               IF outcome # "ok"
               THEN [ths EXCEPT ![t].pc = "done", ![t].outcome = outcome]
               ELSE IF BufferTooSmall(th.shape, th.dtype, data_str)
               THEN [ths EXCEPT ![t].pc = "done", ![t].outcome = "TypeError"]
               ELSE [ths EXCEPT ![t].pc = "done", ![t].outcome = "ok",
                         ![t].value = ndarray(th.shape, th.dtype, data_str)]
    /\ UNCHANGED <<store, dirs, files, objects, res, last, hist, lazy,
                 sensor, h5, source>>

\* RadosChunkStore.put up to self.ioctx.write_full
RadosPutCall(t, array_name, slices, chunk) ==
    /\ store.kind = "rados" /\ store.state = "open" /\ Free(t)
    /\ threads' = [threads EXCEPT ![t] =
           Call("put", array_name, slices, chunk.dtype, chunk,
                RadosPutMetadata(array_name, slices, chunk), "write_full")]
    /\ UNCHANGED <<store, dirs, files, objects, res, last, hist, lazy,
                 sensor, h5, source>>

\* self.ioctx.write_full(key, data_str): the object is replaced in one step
RadosPutWrite(t) ==
    /\ threads[t].pc = "write_full"
    /\ objects' = Store(objects, threads[t].key, tobytes(threads[t].chunk))
    /\ threads' = Written(Return(t, "ok", NoChunk), t)
    /\ UNCHANGED <<store, dirs, files, res, last, hist, lazy, sensor, h5,
                 source>>

ConcNext ==
    \/ NpyInit("/data")
    \/ RadosInit(TRUE, "none")
    \/ \E t \in Threads, a \in StoreNames, s \in ConcSpecs : NpyGetCall(t, a, s, U1)
    \/ \E t \in Threads : NpyGetLoad(t)
    \/ \E t \in Threads, a \in StoreNames, s \in ConcSpecs, c \in ConcChunks :
           NpyPutCall(t, a, s, c)
    \/ \E t \in Threads : NpyPutMakedirs(t)
    \/ \E t \in Threads : NpyPutOpen(t)
    \/ \E t \in Threads : NpyPutWrite(t)
    \/ \E t \in Threads, a \in StoreNames, s \in ConcSpecs : RadosGetCall(t, a, s, U1)
    \/ \E t \in Threads : RadosGetRead(t)
    \/ \E t \in Threads, a \in StoreNames, s \in ConcSpecs, c \in ConcChunks :
           RadosPutCall(t, a, s, c)
    \/ \E t \in Threads : RadosPutWrite(t)

SpecConc == ConcInit /\ [][ConcNext]_vars

----------------------------------------------------------------------------
(* Lazy arrays over a store (ChunkStore.get_dask_array) and the correlator  *)
(* data built from them (ChunkStoreVisFlagsWeights)                          *)

MaxPulls == 3       \* blocks pulled in a run

BaseName == "cb"
VisArrays == {"correlator_data", "flags", "weights", "weights_channel"}
\* chunk_info: per array the chunk sizes along the first axis and the dtype
ChunkInfo ==
    [a \in VisArrays \cup {"timestamps"} |->
        [chunks |-> <<MaxExtent, 1>>,
         dtype |-> IF a = "flags" THEN U1 ELSE U2]]

RECURSIVE SumTo(_, _)
SumTo(sizes, n) == IF n = 0 THEN 0 ELSE sizes[n] + SumTo(sizes, n - 1)

\* the slices of block b of an array cut into chunks of the given sizes
BlockSlices(chunks, b) ==
    Tuple(<<Slice(SumTo(chunks, b - 1), SumTo(chunks, b), None)>>)

\* the get that block b of the lazy array stands for
BlockGet(array_name, info, b) ==
    [array_name |-> array_name, slices |-> BlockSlices(info.chunks, b),
     dtype |-> info.dtype]

\* (variant) a block pulled before is served from a cache
DeferredCached(pulls, array, b) ==
    IF \E i \in 1..Len(pulls) : pulls[i] = <<array, b>> THEN <<>>
    ELSE <<BlockGet(join(BaseName, array), ChunkInfo[array], b)>>

\* the gets issued when block b is pulled, given the blocks pulled before
Deferred(pulls, array, b) ==
    <<BlockGet(join(BaseName, array), ChunkInfo[array], b)>>

\* store.get_dask_array(array_name, chunks, dtype)
GetDaskArray(array) ==
    /\ lazy' = [lazy EXCEPT !.built = @ \cup {array}]
    /\ UNCHANGED <<store, dirs, files, objects, res, last, hist, threads,
                 sensor, h5, source>>

\* ChunkStoreVisFlagsWeights.__init__: a lazy array per entry of chunk_info,
\* weights as the lazy product of weights and weights_channel
BuildVisFlagsWeights ==
    /\ ~lazy.vfw
    /\ lazy' = [lazy EXCEPT !.built = @ \cup DOMAIN ChunkInfo, !.vfw = TRUE]
    /\ UNCHANGED <<store, dirs, files, objects, res, last, hist, threads,
                 sensor, h5, source>>

\* a consumer pulls block b of a lazy array
Pull(array, b) ==
    /\ array \in lazy.built
    /\ Len(lazy.pulls) < MaxPulls
    /\ lazy' = [lazy EXCEPT !.pulls = Append(@, <<array, b>>),
                            !.gets = @ \o Deferred(lazy.pulls, array, b)]
    /\ UNCHANGED <<store, dirs, files, objects, res, last, hist, threads,
                 sensor, h5, source>>

\* a consumer pulls block b of data.weights: a block of either factor
PullWeights(b) ==
    /\ lazy.vfw
    /\ Len(lazy.pulls) + 1 < MaxPulls
    /\ LET first == Append(lazy.pulls, <<"weights", b>>)
       IN  lazy' = [lazy EXCEPT
               !.pulls = Append(first, <<"weights_channel", b>>),
               !.gets = @ \o Deferred(lazy.pulls, "weights", b)
                          \o Deferred(first, "weights_channel", b)]
    /\ UNCHANGED <<store, dirs, files, objects, res, last, hist, threads,
                 sensor, h5, source>>

LazyNext ==
    \/ GetDaskArray("timestamps")
    \/ BuildVisFlagsWeights
    \/ \E array \in DOMAIN ChunkInfo :
           \E b \in 1..Len(ChunkInfo[array].chunks) : Pull(array, b)
    \/ \E b \in 1..Len(ChunkInfo["weights"].chunks) : PullWeights(b)

SpecLazy == Init /\ [][LazyNext]_vars

----------------------------------------------------------------------------
(* katfile.hdf5.remove_duplicates on a sensor data set *)

MaxLen == 3         \* records in a sensor data set
MaxTime == 2        \* timestamps are 1..MaxTime

SensorRecords ==
    [timestamp : 1..MaxTime, value : {1, 2}, status : {"nominal", "error"}]
\* data sets of up to MaxLen records, in any order of the timestamps
SensorData == UNION {[1..n -> SensorRecords] : n \in 0..MaxLen}

\* a[ind] for a sequence of indices (1-based here)
Take(a, ind) == [i \in 1..Len(ind) |-> a[ind[i]]]

\* np.argsort(x, kind='mergesort'): stable, equal elements keep their order
argsort(x) ==
    LET before(i) == {j \in 1..Len(x) : x[j] < x[i] \/ (x[j] = x[i] /\ j < i)}
    IN  [r \in 1..Len(x) |->
            CHOOSE i \in 1..Len(x) : Cardinality(before(i)) = r - 1]

\* np.asarray(list(np.diff(x) != 0) + [True])
LastOfRun(x) ==
    [i \in 1..(IF Len(x) = 0 THEN 1 ELSE Len(x)) |->
        IF i >= Len(x) THEN TRUE ELSE x[i + 1] - x[i] # 0]

\* last_of_run.nonzero()[0]: the indices that hold True, ascending
RECURSIVE nonzero(_, _)
nonzero(flags, n) ==
    IF n = 0 THEN <<>>
    ELSE nonzero(flags, n - 1) \o (IF flags[n] THEN <<n>> ELSE <<>>)

\* unique_ind[len(unique_ind) - np.cumsum(last_of_run[::-1])[::-1]]: for each
\* position the index that stands for its run
Replacement(last_of_run, unique_ind) ==
    [i \in 1..Len(last_of_run) |->
        unique_ind[Len(unique_ind) + 1
                   - Cardinality({j \in i..Len(last_of_run) : last_of_run[j]})]]

remove_duplicates(data) ==
    LET x0 == [i \in 1..Len(data) |-> data[i].timestamp]
        y0 == [i \in 1..Len(data) |-> data[i].value]
        z == [i \in 1..Len(data) |-> data[i].status]
        sort_ind == argsort(x0)
        x == Take(x0, sort_ind)
        y == Take(y0, sort_ind)
        last_of_run == LastOfRun(x)
        unique_ind == nonzero(last_of_run, Len(last_of_run))
        replacement == Replacement(last_of_run, unique_ind)
    IN  IF Len(data) = 0
        THEN [outcome |-> "IndexError", warned |-> FALSE, out |-> <<>>]
        ELSE [outcome |-> "ok",
              warned |-> (Take(y, replacement) # y \/ Take(z, replacement) # z),
              out |-> [i \in 1..Len(unique_ind) |->
                          [timestamp |-> x[unique_ind[i]],
                           value |-> y[unique_ind[i]],
                           status |-> z[unique_ind[i]]]]]

DedupInit ==
    /\ store = NoStore
    /\ dirs = {"/data"}
    /\ files = NoFiles
    /\ objects = NoObjects
    /\ res = NoRes
    /\ last = NoLast
    /\ hist = NoHist
    /\ threads = NoThreads
    /\ lazy = NoLazy
    /\ sensor \in {[NoSensor EXCEPT !.data = d] : d \in SensorData}
    /\ h5 = NoH5
    /\ source = NoSource

RemoveDuplicates ==
    /\ ~sensor.done
    /\ LET r == remove_duplicates(sensor.data)
       IN  sensor' = [sensor EXCEPT !.done = TRUE, !.outcome = r.outcome,
                                    !.warned = r.warned, !.out = r.out]
    /\ UNCHANGED <<store, dirs, files, objects, res, last, hist, threads,
                 lazy, h5, source>>

DedupNext == RemoveDuplicates

SpecDedup == DedupInit /\ [][DedupNext]_vars

----------------------------------------------------------------------------
(* katfile.hdf5: a data file object (H5DataV1, H5DataV2) and its scans()   *)
(* generator.  One generator is live at a time; a consumer runs it to the  *)
(* end or leaves it where it is.                                            *)

MaxSamples == 3     \* timestamps (dumps) in a version 2 file
MaxScans == 2       \* scans in a version 2 file, or in a compound scan

\* sequences of 1..MaxScans start indices as searchsorted gives them: sorted,
\* in 0..n for n dump end times
StartsOf(n) ==
    {st \in UNION {[1..k -> 0..n] : k \in 1..MaxScans} :
        \A i \in 1..(Len(st) - 1) : st[i] <= st[i + 1]}

\* version 1 files: per compound scan its number of scans
CompScans == UNION {[1..k -> 0..MaxScans] : k \in 1..2}

\* the current-scan selection of the object
Selection(h) ==
    IF h.version = 2 THEN <<h.first_sample, h.last_sample>> ELSE h.scan_group

\* H5DataV2.__init__ (the part that dissects the data set into scans)
OpenV2(len, dup, starts) ==
    /\ h5.version = 0
    /\ LET ends == [i \in 1..Len(starts) |->
                       IF i < Len(starts) THEN starts[i + 1] - 1
                       ELSE (IF dup /\ len > 1 THEN len - 1 ELSE len) - 1]
           h == [NoH5 EXCEPT !.version = 2, !.len = len, !.scan_starts = starts,
                             !.scan_ends = ends, !.first_sample = 0,
                             !.last_sample = len - 1]
       IN  h5' = [h EXCEPT !.initial = Selection(h)]
    /\ UNCHANGED <<store, dirs, files, objects, res, last, hist, threads,
                 lazy, sensor, source>>

\* H5DataV1.__init__ (the part that selects the first scan)
OpenV1(compscans) ==
    /\ h5.version = 0
    /\ IF compscans[1] = 0
       THEN h5' = [NoH5 EXCEPT !.error = "ValueError"]
       ELSE LET h == [NoH5 EXCEPT !.version = 1, !.compscans = compscans,
                                  !.scan_group = <<0, 0>>]
            IN  h5' = [h EXCEPT !.initial = Selection(h)]
    /\ UNCHANGED <<store, dirs, files, objects, res, last, hist, threads,
                 lazy, sensor, source>>

\* d.scans(): a generator object is made, none of its body runs
Scans ==
    /\ h5.version \in {1, 2}
    /\ h5.gen.pc \in {"none", "exhausted", "closed"}
    /\ h5' = [h5 EXCEPT !.gen = [NoGen EXCEPT !.pc = "created"]]
    /\ UNCHANGED <<store, dirs, files, objects, res, last, hist, threads,
                 lazy, sensor, source>>

\* (variant) the selection is left at the last scan
AfterLastScanKept(h) == h

\* the statement after the loop of H5DataV2.scans
AfterLastScan(h) == [h EXCEPT !.first_sample = 0, !.last_sample = h.len - 1]

\* next() on the generator of H5DataV2.scans: up to the next yield or the end
NextScanV2 ==
    /\ h5.version = 2
    /\ h5.gen.pc \in {"created", "suspended"}
    /\ LET scan_index == IF h5.gen.pc = "created" THEN 0 ELSE h5.gen.scan_index + 1
       IN  IF scan_index < Len(h5.scan_starts)
           THEN h5' = [h5 EXCEPT
                    !.first_sample = h5.scan_starts[scan_index + 1],
                    !.last_sample = h5.scan_ends[scan_index + 1],
                    !.gen = [@ EXCEPT !.pc = "suspended", !.scan_index = scan_index]]
           ELSE h5' = [AfterLastScan(h5) EXCEPT
                    !.gen = [@ EXCEPT !.pc = "exhausted", !.scan_index = scan_index]]
    /\ UNCHANGED <<store, dirs, files, objects, res, last, hist, threads,
                 lazy, sensor, source>>

\* the scans of a version 1 file that the nested loops still have to visit
\* after scan `scan` of compound scan `compscan_index`
ScansLeft(compscans, compscan_index, scan) ==
    {cs \in (0..(Len(compscans) - 1)) \X (0..MaxScans) :
        /\ cs[2] < compscans[cs[1] + 1]
        /\ cs[1] > compscan_index \/ (cs[1] = compscan_index /\ cs[2] > scan)}

\* next() on the generator of H5DataV1.scans
NextScanV1 ==
    /\ h5.version = 1
    /\ h5.gen.pc \in {"created", "suspended"}
    /\ LET left == IF h5.gen.pc = "created"
                   THEN ScansLeft(h5.compscans, 0, 0 - 1)
                   ELSE ScansLeft(h5.compscans, h5.gen.compscan_index, h5.gen.scan)
           next == CHOOSE cs \in left :
                       \A other \in left :
                           cs[1] < other[1] \/ (cs[1] = other[1] /\ cs[2] <= other[2])
       IN  IF left # {}
           THEN h5' = [h5 EXCEPT
                    !.scan_group = next,
                    !.gen = [pc |-> "suspended",
                             scan_index |-> IF h5.gen.pc = "created" THEN 0
                                            ELSE h5.gen.scan_index + 1,
                             compscan_index |-> next[1], scan |-> next[2]]]
           ELSE h5' = [h5 EXCEPT !.scan_group = <<0, 0>>, !.gen.pc = "exhausted"]
    /\ UNCHANGED <<store, dirs, files, objects, res, last, hist, threads,
                 lazy, sensor, source>>

\* the consumer leaves the loop early: the generator never runs again
LeaveScans ==
    /\ h5.gen.pc = "suspended"
    /\ h5' = [h5 EXCEPT !.gen.pc = "closed"]
    /\ UNCHANGED <<store, dirs, files, objects, res, last, hist, threads,
                 lazy, sensor, source>>

\* H5DataV2.timestamps(): the indices of self._data_timestamps[first:last + 1]
timestamps(h) ==
    LET stop == IF h.last_sample + 1 > h.len THEN h.len ELSE h.last_sample + 1
    IN  [k \in 1..(stop - h.first_sample) |-> h.first_sample + k - 1]

ScansNext ==
    \/ \E len \in 1..MaxSamples, dup \in BOOLEAN :
           \E starts \in StartsOf(IF dup /\ len > 1 THEN len - 1 ELSE len) :
               OpenV2(len, dup, starts)
    \/ \E compscans \in CompScans : OpenV1(compscans)
    \/ Scans
    \/ NextScanV2
    \/ NextScanV1
    \/ LeaveScans

SpecScans == Init /\ [][ScansNext]_vars

----------------------------------------------------------------------------
(* katdal.datasources.open_data_source and TelstateDataSource.from_url *)

\* a URL: its scheme ("" when it has none), whether its path is a file, and
\* its db parameter
Urls ==
    [scheme : {"", "file", "redis", "http"}, isfile : BOOLEAN, db : {"0", "x"}]

\* what telstate.load_from_file, the connection to the redis server and the
\* constructor of the data source meet
LoadFaults == {"none", "OSError", "IOError"}
RedisFaults == {"none", "ConnectionError", "TimeoutError", "ResponseError"}
ConstructFaults == {"none", "KeyError"}

\* urlparse.urlparse(url, scheme='file').scheme
SchemeOf(url) == IF url.scheme = "" THEN "file" ELSE url.scheme

Returns(value) == [kind |-> "return", what |-> value]
Raises(exception) == [kind |-> "raise", what |-> exception]

\* return cls(telstate, **kwargs)
Construct(construct) ==
    IF construct = "none" THEN Returns("TelstateDataSource") ELSE Raises(construct)

\* TelstateDataSource.from_url(url)
from_url(url, load, connect, construct) ==
    IF url.db # "0" THEN Raises("ValueError")
    ELSE IF SchemeOf(url) = "file"
    THEN IF load = "OSError" THEN Raises("DataSourceNotFound")
         ELSE IF load # "none" THEN Raises(load)
         ELSE Construct(construct)
    ELSE IF SchemeOf(url) = "redis"
    THEN IF connect \in {"ConnectionError", "TimeoutError"}
         THEN Raises("DataSourceNotFound")
         ELSE IF connect # "none" THEN Raises(connect)
         ELSE Construct(construct)
    ELSE Returns("None")

\* open_data_source(url)
open_data_source(url, load, connect, construct) ==
    LET inner == from_url(url, load, connect, construct)
    IN  IF inner = Raises("DataSourceNotFound")
        THEN IF SchemeOf(url) = "file" /\ ~url.isfile
             THEN Raises("DataSourceNotFound")
             ELSE Returns("None")
        ELSE inner

OpenDataSource(url, load, connect, construct) ==
    /\ LET inner == from_url(url, load, connect, construct)
           r == open_data_source(url, load, connect, construct)
       IN  source' = [op |-> "open_data_source", url |-> url, load |-> load,
                      connect |-> connect, construct |-> construct,
                      inner |-> inner.what,
                      outcome |-> IF r.kind = "return" THEN "returned" ELSE r.what,
                      value |-> IF r.kind = "return" THEN r.what ELSE "none"]
    /\ UNCHANGED <<store, dirs, files, objects, res, last, hist, threads, lazy,
                   sensor, h5>>

\* a path that is not a file cannot be loaded
OpenNext ==
    \E url \in Urls, load \in LoadFaults, connect \in RedisFaults,
       construct \in ConstructFaults :
        /\ url.isfile \/ load # "none"
        /\ OpenDataSource(url, load, connect, construct)

SpecOpen == Init /\ [][OpenNext]_vars

----------------------------------------------------------------------------
(* The key / metadata engine on its own, called as the tests call it *)

\* ChunkStore.chunk_name(array_name, slices)
ChunkNameCall(array_name, slices) ==
    /\ LET md == NpyChunkName(array_name, slices)
           req == Request("chunk_name", array_name, slices, NoDtype, NoChunk)
       IN  res' = [req EXCEPT !.key = md.key, !.shape = md.shape,
                       !.outcome = IF md.err = "none" THEN "ok" ELSE md.err]
    /\ last' = IF res.op = "chunk_name" /\ res.outcome = "ok"
               THEN [array_name |-> res.array_name,
                     starts |-> SliceStarts(res.slices), key |-> res.key]
               ELSE NoLast
    /\ UNCHANGED <<store, dirs, files, objects, hist, aside>>

\* store.chunk_metadata(array_name, slices, chunk=chunk, dtype=dtype)
ChunkMetadataCall(array_name, slices, chunk, dtype) ==
    /\ LET md == chunk_metadata(array_name, slices, chunk, dtype)
           req == Request("chunk_metadata", array_name, slices, dtype, chunk)
       IN  res' = [req EXCEPT !.key = md.key, !.shape = md.shape,
                       !.outcome = IF md.err = "none" THEN "ok" ELSE md.err]
    /\ last' = NoLast
    /\ UNCHANGED <<store, dirs, files, objects, hist, aside>>

MetaNext ==
    \/ \E a \in ArrayNames, s \in SliceSpecs : ChunkNameCall(a, s)
    \/ \E a \in ArrayNames, s \in SliceSpecs :
           \E c \in ChunksFor(s) \cup {NoChunk}, dt \in Dtypes \cup {NoDtype} :
               /\ c = NoChunk \/ dt = NoDtype
               /\ ChunkMetadataCall(a, s, c, dt)

SpecMeta == Init /\ [][MetaNext]_vars

----------------------------------------------------------------------------
(* Properties *)

IsStoreCall == res.op \in {"get", "put"}

\* what the key / metadata engine says of the last get or put as a whole:
\* a put is described by its chunk, a get by its dtype (NPY files describe
\* themselves, so the dtype given to the NPY store's get is advisory)
RequestMetadata ==
    IF res.op = "put"
    THEN chunk_metadata(res.array_name, res.slices, res.chunk, NoDtype)
    ELSE chunk_metadata(res.array_name, res.slices, NoChunk,
                        IF store.kind = "npy" THEN NoDtype ELSE res.dtype)

\* data is stored under the key of the last call
Stored ==
    IF store.kind = "npy" THEN NpyFilename(store.path, res.key) \in DOMAIN files
    ELSE res.key \in DOMAIN objects

NonUnitStep(slices) ==
    \E i \in 1..Len(slices.items) :
        slices.items[i].tag = "slice" /\ slices.items[i].step \notin {None, 1}

\* C1: a get that directly follows a successful put of the same array name and
\* slices, asks for the chunk's dtype and meets no backend failure succeeds and
\* returns the chunk that was put (same shape, same elements), on both backends.
RoundTrip ==
    (/\ res.op = "get"
     /\ res.rt # NoChunk
     /\ res.dtype = res.rt.dtype
     /\ res.fault = "none")
    => (res.outcome = "ok" /\ res.value = res.rt)

RoundTripWitness ==
    /\ res.op = "get"
    /\ store.kind = "rados"
    /\ res.rt # NoChunk
    /\ res.dtype = U2
    /\ res.fault = "none"
    /\ Len(res.rt.data) > 1
    /\ res.value = res.rt

\* C2: a valid get on a key under which nothing is stored, meeting no backend
\* failure, raises ChunkNotFound on every backend.
MissingChunkNotFound ==
    (/\ res.op = "get"
     /\ RequestMetadata.err = "none"
     /\ res.fault = "none"
     /\ ~Stored)
    => res.outcome = "ChunkNotFound"

\* C3: a get or put whose slices hold a step other than 1 (or the default)
\* raises MalformedRequest, on both backends, whatever else it is given.
StepRejected ==
    (IsStoreCall /\ NonUnitStep(res.slices)) => res.outcome = "MalformedRequest"

StepRejectedWitness ==
    /\ res.op = "put"
    /\ store.kind = "rados"
    /\ NonUnitStep(res.slices)
    /\ res.chunk.shape = SliceShape(res.slices)
    /\ res.outcome = "MalformedRequest"

\* C4: a put whose chunk has another shape than its slices (stop - start per
\* dimension) raises MalformedRequest and writes nothing, on both backends.
ShapeMismatchRejected ==
    (/\ res.op = "put"
     /\ WellFormed(res.slices)
     /\ res.chunk.shape # SliceShape(res.slices))
    => (/\ res.outcome = "MalformedRequest"
        /\ ~res.changed
        /\ res.io \cap {"makedirs", "save", "write_full"} = {})

\* C5: chunk_metadata raises MalformedRequest when the dtype holds objects,
\* be it the dtype of the chunk supplied or the dtype passed on its own.
ObjectDtypeRejected ==
    (/\ res.op = "chunk_metadata"
     /\ (res.chunk.dtype.hasobject \/ res.dtype.hasobject))
    => res.outcome = "MalformedRequest"

ObjectDtypeRejectedWitness ==
    /\ res.op = "chunk_metadata"
    /\ res.chunk = NoChunk
    /\ res.dtype = Obj
    /\ WellFormed(res.slices) /\ ~NonUnitStep(res.slices)
    /\ res.outcome = "MalformedRequest"

\* C6: key and metadata derivation reject a bare integer (3), a list of
\* integers ([3, 2]), a slice outside a sequence (slice(10)), a slice without
\* a start ([slice(10)]) and the empty sequence.
BadSpecRejected ==
    (/\ res.op \in {"chunk_name", "chunk_metadata"}
     /\ \/ ~res.slices.iterable
        \/ res.slices.items = <<>>
        \/ \E i \in 1..Len(res.slices.items) :
               \/ res.slices.items[i].tag # "slice"
               \/ res.slices.items[i].start = None
               \/ res.slices.items[i].stop = None)
    => res.outcome = "MalformedRequest"

BadSpecRejectedWitness ==
    /\ res.op = "chunk_metadata"
    /\ res.slices = Tuple(<<Slice(None, 10, None)>>)
    /\ res.outcome = "MalformedRequest"

\* C7: the chunk name is "<array_name>/<starts, zero-padded, joined by _>", and
\* two names derived for one array from different start offsets differ, as do
\* the NPY files "<root>/<name>.npy" they are stored in.
KeysDistinct ==
    /\ (/\ res.op = "chunk_name"
        /\ res.outcome = "ok"
        /\ last # NoLast
        /\ last.array_name = res.array_name
        /\ last.starts # SliceStarts(res.slices))
       => /\ res.key # last.key
          /\ \A root \in RootPaths :
                 NpyFilename(root, res.key) # NpyFilename(root, last.key)
    /\ (/\ res.op = "chunk_name"
        /\ res.outcome = "ok"
        /\ res.slices = TestSpec3D)
       => res.key = res.array_name \o "/00003_00002_00001"

KeysDistinctWitness ==
    /\ res.op = "chunk_name"
    /\ res.outcome = "ok"
    /\ last # NoLast
    /\ last.array_name = res.array_name
    /\ Len(last.starts) = 2
    /\ Len(res.slices.items) = 2
    /\ last.starts # SliceStarts(res.slices)
    /\ res.key # last.key

\* C8: a malformed get or put (bad slice structure, non-unit step, chunk of
\* another shape, dtype holding objects) fails with MalformedRequest and never
\* reaches the backend: no backend call is made and nothing stored changes.
NoMalformedReachesBackend ==
    (IsStoreCall /\ RequestMetadata.err # "none")
    => (res.outcome = "MalformedRequest" /\ res.io = {} /\ ~res.changed)

\* C9: a backend call run under the error translator ends in one of three
\* ways: no native failure, nothing raised by the translator; a native failure
\* in the error map, the kind it maps to (StoreUnavailable or ChunkNotFound);
\* a native failure not in the map, that failure itself.
TranslatorOutcomes ==
    (res.io \cap {"connect", "read", "write_full"} # {})
    => LET em == IF res.op = "init" THEN InitialErrorMap ELSE store.error_map
       IN  /\ res.native = "none" => res.outcome \in {"ok", "TypeError"}
           /\ (res.native # "none" /\ res.native \in DOMAIN em)
              => /\ res.outcome = em[res.native]
                 /\ res.outcome \in {"StoreUnavailable", "ChunkNotFound"}
           /\ (res.native # "none" /\ res.native \notin DOMAIN em)
              => res.outcome = res.native

TranslatorOutcomesWitness ==
    /\ res.op = "get"
    /\ res.io = {"read"}
    /\ res.native = "Error"
    /\ res.outcome = "Error"

ConstructionFailsFast ==
    /\ (res.op = "init" /\ store.kind = "npy" /\ store.path \notin dirs)
       => (res.outcome = "IOError" /\ store.state = "failed")
    /\ (res.op = "init" /\ store.kind = "rados" /\ res.native # "none")
       => (res.outcome = "StoreUnavailable" /\ store.state = "failed")
    /\ res.op = "init"
       => (~res.changed /\ res.io \cap {"makedirs", "save", "write_full"} = {})
    /\ IsStoreCall => store.state = "open"

\* C17: a get that succeeds returns an array of the shape of its slices (stop -
\* start per dimension) and of the dtype it asked for, whatever was put before,
\* puts under the same start offsets with other stops included.
GetShapeAndDtype ==
    (res.op = "get" /\ res.outcome = "ok")
    => (res.value.shape = SliceShape(res.slices) /\ res.value.dtype = res.dtype)

\* C18: a put fails with StoreUnavailable or MalformedRequest when it fails
\* with a standardized kind, never with ChunkNotFound, the RADOS store after
\* the remapping of ObjectNotFound included.
PutNeverChunkNotFound ==
    res.op = "put" => res.outcome # "ChunkNotFound"

\* C12 (as stated): a get returns the chunk of the latest successful put made
\* with its array name and slices, whatever was put with other slices since.
LatestPutOfSlices ==
    LET p == <<res.array_name, res.slices>>
    IN  (/\ res.op = "get"
         /\ p \in DOMAIN hist.bypair
         /\ res.dtype = hist.bypair[p].dtype)
        => (res.outcome = "ok" /\ res.value = hist.bypair[p])

\* C12 (amended): a get returns the chunk of the latest successful put under
\* its chunk key (array name and start offsets) when that put was made with the
\* slices and the dtype of the get; puts under other keys do not change it.
LatestPutOfKey ==
    (/\ res.op = "get"
     /\ res.key \in DOMAIN hist.bykey
     /\ hist.bykey[res.key].slices = res.slices
     /\ hist.bykey[res.key].chunk.dtype = res.dtype)
    => (res.outcome = "ok" /\ res.value = hist.bykey[res.key].chunk)

\* a get of a key put twice, another key put since
LatestPutOfKeyWitness ==
    /\ res.op = "get"
    /\ res.outcome = "ok"
    /\ Cardinality(DOMAIN hist.bykey) = 2
    /\ Cardinality(DOMAIN hist.bypair) = 3
    /\ res.key \in DOMAIN hist.bykey
    /\ hist.bykey[res.key].slices = res.slices
    /\ res.value = hist.bykey[res.key].chunk
    /\ res.value = Arange(<<MaxExtent>>, U1, Seed + 1)

\* a get of thread t has returned or raised
GetDone(t) == threads[t].pc = "done" /\ threads[t].op = "get"

\* the chunk key holds a whole chunk
Whole(key) ==
    IF store.kind = "npy"
    THEN /\ NpyFilename(store.path, key) \in DOMAIN files
         /\ files[NpyFilename(store.path, key)] # Torn
    ELSE key \in DOMAIN objects

\* thread t got the chunk that the key holds
GotStored(t) ==
    /\ threads[t].outcome = "ok"
    /\ threads[t].value \in ConcChunks
    /\ IF store.kind = "npy"
       THEN threads[t].value = files[NpyFilename(store.path, threads[t].key)]
       ELSE tobytes(threads[t].value) = objects[threads[t].key]

\* two gets of one key, one under way when the other read, no put since they began
GetsOverlapped(t, u) ==
    /\ t # u
    /\ GetDone(t) /\ GetDone(u)
    /\ threads[t].key = threads[u].key
    /\ threads[t].clean /\ threads[u].clean
    /\ threads[t].over \/ threads[u].over

\* C13: two gets of one written key that overlap, no put writing meanwhile,
\* both return the chunk the key holds, however their steps interleave, and
\* the step in which a get reads changes nothing in the store.
ConcurrentGets ==
    /\ [](\A t, u \in Threads :
             (GetsOverlapped(t, u) /\ Whole(threads[t].key))
             => (GotStored(t) /\ GotStored(u)))
    /\ [][\A t \in Threads :
             (threads[t].pc \in {"load", "read"} /\ threads'[t].pc = "done")
             => UNCHANGED <<store, dirs, files, objects>>]_vars

ConcurrentGetsWitness ==
    /\ store.kind = "rados"
    /\ GetsOverlapped(1, 2)
    /\ Whole(threads[1].key)
    /\ GotStored(1) /\ GotStored(2)
    /\ threads[1].value = Arange(<<1>>, U1, Seed + 1)

\* C15: a get of a key that holds a chunk returns a whole chunk, the one the
\* key held or the one a put is storing, also while that put is under way.
PutAtomicForGets ==
    \A t \in Threads :
        (GetDone(t) /\ threads[t].present)
        => (threads[t].outcome = "ok" /\ threads[t].value \in ConcChunks)

\* C16: two puts to the NPY store, to two chunks of one array, both return
\* without error and both chunks are in their files afterwards, also when the
\* puts run at the same time and the directory of the array was not there.
ConcurrentPutsSucceed ==
    \A t, u \in Threads :
        (/\ store.kind = "npy"
         /\ threads[t].pc = "done" /\ threads[t].op = "put"
         /\ threads[u].pc = "done" /\ threads[u].op = "put"
         /\ threads[t].key # threads[u].key)
        => (threads[t].outcome = "ok" /\ Whole(threads[t].key))

\* the gets that the blocks pulled stand for, one per pull, in their order
RECURSIVE GetsOf(_)
GetsOf(pulls) ==
    IF pulls = <<>> THEN <<>>
    ELSE LET array == Head(pulls)[1]
             b == Head(pulls)[2]
             first == IF b = 1 THEN 0 ELSE ChunkInfo[array].chunks[1]
         IN  <<[array_name |-> BaseName \o "/" \o array,
                slices |-> Tuple(<<Slice(first, first + ChunkInfo[array].chunks[b],
                                         None)>>),
                dtype |-> ChunkInfo[array].dtype]>> \o GetsOf(Tail(pulls))

\* C14: building a lazy array, or the correlator data from lazy arrays, calls
\* no get of the store; each pull of a block calls get once with the slices
\* of that block, a block pulled again included.
LazyUntilPulled == lazy.gets = GetsOf(lazy.pulls)

LazyUntilPulledWitness ==
    /\ lazy.vfw
    /\ Len(lazy.pulls) = 3
    /\ lazy.pulls[1] = <<"flags", 2>>
    /\ lazy.pulls[3] = <<"flags", 2>>
    /\ Len(lazy.gets) = 3
    /\ lazy.gets[1] = lazy.gets[3]
    /\ lazy.gets[3].slices = Tuple(<<Slice(MaxExtent, MaxExtent + 1, None)>>)

\* C19: of a data set of N >= 1 records, in any order, remove_duplicates
\* returns M <= N records with strictly increasing timestamps, one for each
\* timestamp of the data set, each with the value and the status of the last
\* record of the data set that has its timestamp.
LastOfDuplicatesKept ==
    (sensor.done /\ Len(sensor.data) > 0)
    => LET N == Len(sensor.data)
           M == Len(sensor.out)
           lastWith(t) == CHOOSE i \in 1..N :
                              /\ sensor.data[i].timestamp = t
                              /\ \A j \in (i + 1)..N : sensor.data[j].timestamp # t
       IN  /\ sensor.outcome = "ok"
           /\ M <= N
           /\ \A i \in 1..(M - 1) :
                  sensor.out[i].timestamp < sensor.out[i + 1].timestamp
           /\ {sensor.out[i].timestamp : i \in 1..M}
                  = {sensor.data[i].timestamp : i \in 1..N}
           /\ \A i \in 1..M :
                  sensor.out[i] = sensor.data[lastWith(sensor.out[i].timestamp)]

\* C20: when scans() has been iterated to its end the current-scan selection
\* is the one the object had after its construction (version 2: first sample 0
\* and last sample the number of timestamps - 1, timestamps() giving every
\* timestamp; version 1: scan group CompoundScan0/Scan0); while the generator
\* is suspended at scan i the selection is [scan_starts[i], scan_ends[i]].
ScansRestoreSelection ==
    /\ h5.gen.pc = "exhausted"
       => /\ Selection(h5) = h5.initial
          /\ h5.version = 2
             => /\ h5.first_sample = 0 /\ h5.last_sample = h5.len - 1
                /\ timestamps(h5) = [k \in 1..h5.len |-> k - 1]
          /\ h5.version = 1 => h5.scan_group = <<0, 0>>
    /\ (h5.gen.pc = "suspended" /\ h5.version = 2)
       => /\ h5.first_sample = h5.scan_starts[h5.gen.scan_index + 1]
          /\ h5.last_sample = h5.scan_ends[h5.gen.scan_index + 1]

ScansRestoreSelectionWitness ==
    /\ h5.version = 2
    /\ h5.gen.pc = "exhausted"
    /\ h5.gen.scan_index = 2
    /\ h5.len = MaxSamples
    /\ h5.scan_starts[2] > 0
    /\ Selection(h5) = <<0, MaxSamples - 1>>
    /\ Selection(h5) # <<h5.scan_starts[2], h5.scan_ends[2]>>

\* C21: open_data_source never returns None, and a DataSourceNotFound raised
\* while the source is opened (unreachable redis server, unreadable file)
\* leaves open_data_source as DataSourceNotFound.
OpenReturnsSourceOrNotFound ==
    source.op = "open_data_source"
    => /\ source.outcome = "returned" => source.value = "TelstateDataSource"
       /\ source.inner = "DataSourceNotFound"
          => source.outcome = "DataSourceNotFound"

====
